---- MODULE Spec2Model ----
(***************************************************************************)
(* Tool-call permission gateway of scripts/examples/enhanced-permission-   *)
(* system.ts (class EnhancedPermissionSystem): the decision memory         *)
(* (autoAllow, allowedTools, deniedTools), the fast path, the risk         *)
(* classification and the readline prompt with its answer switch.          *)
(*                                                                         *)
(* JavaScript strings are sequences of one-character strings.  A           *)
(* parameters object is a record over the keys the code reads; a key maps  *)
(* to the empty set when the object lacks it and to {s} when it holds the  *)
(* string s.                                                               *)
(***************************************************************************)
EXTENDS Naturals, Integers, Sequences, FiniteSets, TLC

\* ------------------------------------------------------------------ bounds

\* Most "i" answers followed within one evaluation.
MaxInfo == 2

\* Most getUserPermission calls awaiting input at once in SpecConc.
MaxPending == 2

\* How many messages the query of claude-file-creator delivers at most.
MaxMessages == 3

Slots == 1..MaxPending

\* ----------------------------------------------------------------- strings

Whitespace == {" ", "\t"}

Upper ==
  << "A", "B", "C", "D", "E", "F", "G", "H", "I", "J", "K", "L", "M",
     "N", "O", "P", "Q", "R", "S", "T", "U", "V", "W", "X", "Y", "Z" >>

Lower ==
  << "a", "b", "c", "d", "e", "f", "g", "h", "i", "j", "k", "l", "m",
     "n", "o", "p", "q", "r", "s", "t", "u", "v", "w", "x", "y", "z" >>

LowerOf ==
  [c \in {Upper[i] : i \in 1..Len(Upper)} |->
     Lower[CHOOSE i \in 1..Len(Upper) : Upper[i] = c]]

ToLowerChar(c) == IF c \in DOMAIN LowerOf THEN LowerOf[c] ELSE c

\* String.prototype.toLowerCase.
ToLowerCase(s) == [i \in 1..Len(s) |-> ToLowerChar(s[i])]

\* String.prototype.trim: drops leading and trailing whitespace only.
Trim(s) ==
  LET keep == {i \in 1..Len(s) : s[i] \notin Whitespace}
  IN IF keep = {} THEN <<>>
     ELSE LET lo == CHOOSE i \in keep : \A j \in keep : i <= j
              hi == CHOOSE i \in keep : \A j \in keep : j <= i
          IN SubSeq(s, lo, hi)

\* String.prototype.includes / an unanchored literal regex alternative.
Includes(s, sub) ==
  \E i \in 0..(Len(s) - Len(sub)) : SubSeq(s, i + 1, i + Len(sub)) = sub

IncludesAny(s, subs) == \E sub \in subs : Includes(s, sub)

\* The text JavaScript coerces undefined to (RegExp.prototype.test(undefined)).
UndefinedText == <<"u", "n", "d", "e", "f", "i", "n", "e", "d">>

\* -------------------------------------------------------------- parameters

Keys ==
  {"file_path", "content", "command", "url", "old_string", "new_string", "path", "pattern"}

Has(p, k) == p[k] # {}

Get(p, k) == CHOOSE v \in p[k] : TRUE

NoParams == [k \in Keys |-> {}]

With(p, k, s) == [p EXCEPT ![k] = {s}]

TmpPath == <<"/", "t", "m", "p", "/", "a">>
EtcPath == <<"/", "e", "t", "c", "/", "x">>
NotesPath == <<"n", ".", "t", "x", "t">>
EnvPath == <<".", "e", "n", "v">>
Hello == <<"h", "i">>
LsCmd == <<"l", "s">>
RmCmd == <<"r", "m", " ", "x">>
GoodUrl == <<"h", "t", "t", "p", ":", "/", "/", "a", ".", "i", "o">>
BadUrl == <<"n", "o", "p", "e">>

UsrPath == <<"/", "u", "s", "r", "/", "b">>
SysPath == <<"/", "s", "y", "s", "/", "k">>
NestedEtcPath == <<"/", "a", "/", "e", "t", "c", "/", "x">>
RelativeEtcPath == <<"e", "t", "c", "/", "x">>
EtcLikePath == <<"/", "e", "t", "c", "x">>
UpperSecretPath == <<"S", "E", "C", "R", "E", "T", ".", "E", "N", "V">>
LowerSecretPath == <<"s", "e", "c", "r", "e", "t", ".", "e", "n", "v">>
KeyPath == <<"a", ".", "K", "e", "y">>
TokenPath == <<"m", "y", "_", "T", "o", "k", "e", "n">>
CurlCmd == <<"c", "u", "r", "l", " ", "a">>
AptCmd == <<"a", "p", "t", " ", "u", "p">>
NpmInstallCmd == <<"n", "p", "m", " ", "i", "n", "s", "t", "a", "l", "l">>
NpmRunCmd == <<"n", "p", "m", " ", "r", "u", "n">>
SudoCurlCmd == <<"s", "u", "d", "o", " ", "c", "u", "r", "l">>
AllFamiliesCmd == <<"r", "m", ";", "w", "g", "e", "t", ";", "y", "u", "m">>
UpperRmCmd == <<"R", "M", " ", "x">>
EchoCmd == <<"e", "c", "h", "o">>
InformCmd == <<"i", "n", "f", "o", "r", "m">>
HttpsNoHostUrl == <<"h", "t", "t", "p", "s", ":", "/", "/">>
OldText == <<"o", "l", "d">>
SrcDir == <<"s", "r", "c">>

Write == <<"W", "r", "i", "t", "e">>
Read == <<"R", "e", "a", "d">>
Bash == <<"B", "a", "s", "h">>
WebFetch == <<"W", "e", "b", "F", "e", "t", "c", "h">>
Edit == <<"E", "d", "i", "t">>
MultiEdit == <<"M", "u", "l", "t", "i", "E", "d", "i", "t">>
LS == <<"L", "S">>
Grep == <<"G", "r", "e", "p">>
TodoWrite == <<"T", "o", "d", "o", "W", "r", "i", "t", "e">>

McpTool == <<"m", "c", "p", "_", "f", "s">>
ScopedTool == <<"a", "@", "b">>
EmptyContent == <<>>
TwoLines == <<"a", "\n", "b">>
TrailingNewline == <<"a", "\n">>
FiveLines == <<"1", "\n", "2", "\n", "3", "\n", "4", "\n", "5">>
SixLines == <<"1", "\n", "2", "\n", "3", "\n", "4", "\n", "5", "\n", "6">>
EightLines == <<"1", "\n", "2", "\n", "\n", "4", "\n", "5", "\n", "6", "\n", "7", "\n", "8">>
LongLine == [i \in 1..81 |-> "x"]
LongLineAndMore == LongLine \o <<"\n", "b">>

UpperMcpTool == <<"M", "C", "P", "_", "f", "s">>
LowerWriteTool == <<"w", "r", "i", "t", "e">>
OtherTool == <<"G", "l", "o", "b">>

\* The requests the runtime may hand to canUseTool: well-formed ones, ones
\* that lack the field the classifier reads, and one malformed URL.
Requests ==
  { [name |-> Write, parameters |-> With(With(NoParams, "file_path", TmpPath), "content", Hello)],
    [name |-> Write, parameters |-> With(With(NoParams, "file_path", EtcPath), "content", Hello)],
    [name |-> Write, parameters |-> With(NoParams, "content", Hello)],
    [name |-> Read, parameters |-> With(NoParams, "file_path", NotesPath)],
    [name |-> Read, parameters |-> With(NoParams, "file_path", EnvPath)],
    [name |-> Read, parameters |-> NoParams],
    [name |-> Bash, parameters |-> With(NoParams, "command", LsCmd)],
    [name |-> Bash, parameters |-> With(NoParams, "command", RmCmd)],
    [name |-> Bash, parameters |-> NoParams],
    [name |-> WebFetch, parameters |-> With(NoParams, "url", GoodUrl)],
    [name |-> WebFetch, parameters |-> With(NoParams, "url", BadUrl)],
    [name |-> WebFetch, parameters |-> NoParams] }

ToolNames == {r.name : r \in Requests}

\* Lines the operator may type at the prompt, before normalisation.
Answers ==
  { <<"y">>, <<"Y">>, <<" ", "y", " ">>, <<"y", "e", "s">>, <<"Y", "E", "S">>,
    <<"a">>, <<" ", "A">>, <<"d">>, <<" ", "D", " ">>, <<"i">>, <<"I">>,
    <<"n">>, <<"N">>, <<>>, <<" ">>, <<"s">>, <<"y", "e", "a", "h">>,
    <<"y", " ", "e", "s">>, <<"d", "d">> }

\* ---------------------------------------------------------- classification

SchemeChars ==
  {Lower[i] : i \in 1..Len(Lower)} \cup {Upper[i] : i \in 1..Len(Upper)}
    \cup {"0", "1", "2", "3", "4", "5", "6", "7", "8", "9", "+", "-", "."}

Letters == {Lower[i] : i \in 1..Len(Lower)} \cup {Upper[i] : i \in 1..Len(Upper)}

\* Where the scheme of a URL text ends (the index of its ":"), 0 when the
\* text has no scheme.
SchemeEnd(s) ==
  LET colons == {i \in 2..Len(s) :
                   /\ s[i] = ":"
                   /\ s[1] \in Letters
                   /\ \A j \in 1..(i - 1) : s[j] \in SchemeChars}
  IN IF colons = {} THEN 0 ELSE CHOOSE i \in colons : \A j \in colons : i <= j

HostEnders == {"/", "?", "#"}

\* The host of a URL text with a scheme: what follows the scheme's ":" and
\* any slashes, up to the next "/", "?" or "#".
HostOf(s) ==
  LET e == SchemeEnd(s)
      starts == {i \in (e + 1)..Len(s) : s[i] \notin {"/", "\\"}}
  IN IF starts = {} THEN <<>>
     ELSE LET lo == CHOOSE i \in starts : \A j \in starts : i <= j
              ends == {i \in lo..Len(s) : s[i] \in HostEnders}
              hi == IF ends = {} THEN Len(s)
                    ELSE (CHOOSE i \in ends : \A j \in ends : i <= j) - 1
          IN SubSeq(s, lo, hi)

SpecialSchemes == {<<"h", "t", "t", "p">>, <<"h", "t", "t", "p", "s">>}

\* Whether new URL(text) returns: the text needs a scheme, and an http(s)
\* URL needs a host without whitespace.
ValidURL(s) ==
  /\ SchemeEnd(s) > 0
  /\ ToLowerCase(SubSeq(s, 1, SchemeEnd(s) - 1)) \in SpecialSchemes
       => /\ HostOf(s) # <<>>
          /\ \A i \in 1..Len(HostOf(s)) : HostOf(s)[i] \notin Whitespace

\* The text a regex tests or new URL parses for parameter k: the string
\* itself, "undefined" when the object lacks the key.
TextOf(p, k) == IF Has(p, k) THEN Get(p, k) ELSE UndefinedText

SystemDirs == {<<"/", "e", "t", "c", "/">>, <<"/", "u", "s", "r", "/">>, <<"/", "s", "y", "s", "/">>}

DangerousWords ==
  { <<"r", "m">>, <<"s", "u", "d", "o">>, <<"c", "h", "m", "o", "d">>,
    <<"c", "h", "o", "w", "n">>, <<"d", "d">>, <<"m", "k", "f", "s">>,
    <<"f", "o", "r", "m", "a", "t">> }

NetworkingWords ==
  { <<"c", "u", "r", "l">>, <<"w", "g", "e", "t">>, <<"n", "c">>,
    <<"s", "s", "h">>, <<"s", "c", "p">> }

InstallWords ==
  { <<"a", "p", "t">>, <<"y", "u", "m">>, <<"b", "r", "e", "w">>,
    <<"n", "p", "m", " ", "i", "n", "s", "t", "a", "l", "l">>,
    <<"p", "i", "p", " ", "i", "n", "s", "t", "a", "l", "l">> }

SensitiveWords ==
  { <<"p", "a", "s", "s", "w", "o", "r", "d">>, <<"s", "e", "c", "r", "e", "t">>,
    <<"k", "e", "y">>, <<"t", "o", "k", "e", "n">>,
    <<"c", "o", "n", "f", "i", "g">>, <<"e", "n", "v">> }

McpMarks == {<<"m", "c", "p", "_">>, <<"@">>}

isSystemPath(p) == IncludesAny(Get(p, "file_path"), SystemDirs)
isDangerous(p) == IncludesAny(TextOf(p, "command"), DangerousWords)
isNetworking(p) == IncludesAny(TextOf(p, "command"), NetworkingWords)
isInstall(p) == IncludesAny(TextOf(p, "command"), InstallWords)
\* isSensitive without toLowerCase: the regex tests the path as given.
isSensitiveAsGiven(p) == IncludesAny(Get(p, "file_path"), SensitiveWords)

isSensitive(p) == IncludesAny(ToLowerCase(Get(p, "file_path")), SensitiveWords)
\* isMCP without its second test, toolName.includes('@').
isMCPNoAt(toolName) == Includes(toolName, <<"m", "c", "p", "_">>)

isMCP(toolName) == IncludesAny(toolName, McpMarks)

\* Whether analyzeToolRequest raises a TypeError instead of returning:
\* filePath.includes and readPath.toLowerCase on undefined, new URL on a
\* text that is no URL.
analyzeThrows(toolName, p) ==
  CASE toolName = Write -> ~Has(p, "file_path")
    [] toolName = Read -> ~Has(p, "file_path")
    [] toolName = WebFetch -> ~ValidURL(TextOf(p, "url"))
    [] OTHER -> FALSE

\* riskLevel of the DetailedToolInfo analyzeToolRequest returns;
\* isExistingFile is what fs.existsSync answered for the Write target.
analyzeToolRequest(toolName, p, isExistingFile) ==
  CASE toolName = Write ->
         IF isSystemPath(p) THEN "CRITICAL"
         ELSE IF isExistingFile THEN "MEDIUM" ELSE "LOW"
    [] toolName \in {Edit, MultiEdit} -> "MEDIUM"
    [] toolName = Bash ->
         IF isDangerous(p) THEN "CRITICAL"
         ELSE IF isNetworking(p) \/ isInstall(p) THEN "HIGH" ELSE "MEDIUM"
    [] toolName = Read -> IF isSensitive(p) THEN "HIGH" ELSE "LOW"
    [] toolName \in {LS, Grep, TodoWrite} -> "LOW"
    [] toolName = WebFetch -> "MEDIUM"
    [] OTHER -> IF isMCP(toolName) THEN "HIGH" ELSE "MEDIUM"

\* The lines one family of Bash commands adds to impacts.
FamilyLine(matched, line) == IF matched THEN <<line>> ELSE <<>>

\* impactsOf with the install line left out, as recommendations leaves it out.
impactsNoInstall(toolName, p, isExistingFile) ==
  <<"Command", "Working directory", "User">>
    \o FamilyLine(isDangerous(p), "DANGEROUS")
    \o FamilyLine(isNetworking(p), "NETWORK")

\* impacts of the DetailedToolInfo analyzeToolRequest returns, each line
\* given by the label it starts with.
impactsOf(toolName, p, isExistingFile) ==
  CASE toolName = Write ->
         <<"Target", "Content size", IF isExistingFile THEN "OVERWRITE" ELSE "NEW", "Directory">>
           \o FamilyLine(isSystemPath(p), "WARNING")
    [] toolName \in {Edit, MultiEdit} -> <<"File", "Changes", "Find", "Replace with">>
    [] toolName = Bash ->
         <<"Command", "Working directory", "User">>
           \o FamilyLine(isDangerous(p), "DANGEROUS")
           \o FamilyLine(isNetworking(p), "NETWORK")
           \o FamilyLine(isInstall(p), "INSTALL")
    [] toolName = Read ->
         <<"File", "Directory">> \o FamilyLine(isSensitive(p), "sensitive") \o <<"visible">>
    [] toolName = LS -> <<"Directory", "File names", "Directory structure">>
    [] toolName = Grep -> <<"Pattern", "Search in", "Matching content">>
    [] toolName = WebFetch -> <<"URL", "Domain", "HTTP request", "Web content">>
    [] toolName = TodoWrite -> <<"Manage", "Track", "Temporary">>
    [] OTHER ->
         IF isMCP(toolName)
         THEN <<"MCP Server", "external services", "Parameters", "unknown", "external resources">>
         ELSE <<"Tool", "Unknown capabilities", "Parameters">>

\* slice(0, 5) and substring(0, 80) of showContentPreview.
PreviewLines == 5

LineWidth == 80

\* Where the newlines of a text stand, and the k-th of them; the start and
\* the end of the text count as the 0-th and the last.
Newlines(s) == {i \in 1..Len(s) : s[i] = "\n"}

Break(s, k) ==
  IF k = 0 THEN 0
  ELSE IF k > Cardinality(Newlines(s)) THEN Len(s) + 1
  ELSE CHOOSE i \in Newlines(s) : Cardinality({j \in Newlines(s) : j <= i}) = k

\* content.split('\n')
Split(s) ==
  [k \in 1..(Cardinality(Newlines(s)) + 1) |-> SubSeq(s, Break(s, k - 1) + 1, Break(s, k) - 1)]

\* line.substring(0, 80), with '...' after a longer line.
Shorten(line) ==
  IF Len(line) > LineWidth THEN SubSeq(line, 1, LineWidth) \o <<".", ".", ".">> ELSE line

\* Nothing is printed.
NoPreview == [shown |-> FALSE, lines |-> <<>>, more |-> {}]

\* showContentPreview without slice(0, 5): every line is printed.
showContentPreviewUnbounded(p) ==
  IF Has(p, "content") /\ Get(p, "content") # <<>>
  THEN LET lines == Split(Get(p, "content"))
       IN [shown |-> TRUE,
           lines |-> [i \in 1..Len(lines) |-> [number |-> i, text |-> Shorten(lines[i])]],
           more |-> {}]
  ELSE NoPreview

\* What showContentPreview prints: the numbered lines, and the count of the
\* `... and N more lines` line if there is one.
showContentPreview(p) ==
  IF Has(p, "content") /\ Get(p, "content") # <<>>
  THEN LET lines == Split(Get(p, "content"))
           shown == IF Len(lines) < PreviewLines THEN Len(lines) ELSE PreviewLines
       IN [shown |-> TRUE,
           lines |-> [i \in 1..shown |-> [number |-> i, text |-> Shorten(lines[i])]],
           more |-> IF Len(lines) > PreviewLines THEN {Len(lines) - PreviewLines} ELSE {}]
  ELSE NoPreview

\* if (['Write', 'Edit', 'MultiEdit'].includes(toolName)) this.showContentPreview(parameters)
PreviewFor(toolName, p) ==
  IF toolName \in {Write, Edit, MultiEdit} THEN showContentPreview(p) ELSE NoPreview

\* ------------------------------------------------------------------- state

VARIABLES
  autoAllow,     \* EnhancedPermissionSystem.autoAllow
  allowedTools,  \* EnhancedPermissionSystem.allowedTools
  deniedTools,   \* EnhancedPermissionSystem.deniedTools
  call,          \* per slot: a getUserPermission call blocked in rl.question
  last,          \* the step just taken: its input, the state before it, its outcome
  info,          \* one analyzeToolRequest call on its own: its arguments and what it gave
  stream,        \* claude-file-creator's main: its prompt stream and its message loop
  demo           \* demo-all-features: global.autoAllow and its getUserPermission calls

vars == <<autoAllow, allowedTools, deniedTools, call, last, info, stream, demo>>

\* What getState() reports.
getState ==
  [autoAllow |-> autoAllow, allowedTools |-> allowedTools, deniedTools |-> deniedTools]

NoTool == <<>>

\* The allow result has no message field.
NoMessage == <<>>

PreviouslyDenied ==
  <<"T", "o", "o", "l", " ", "p", "r", "e", "v", "i", "o", "u", "s", "l", "y", " ">> \o
  <<"d", "e", "n", "i", "e", "d", " ", "b", "y", " ", "u", "s", "e", "r">>

DeniedOnce ==
  <<"U", "s", "e", "r", " ", "d", "e", "n", "i", "e", "d", " ", "p", "e", "r", "m", "i", "s", "s", "i", "o", "n">>

\* The message of case 'd' with the text of the default arm.
DeniedAllAsOnce(toolName) == DeniedOnce

\* `User denied all ${toolName} requests`
DeniedAll(toolName) ==
  <<"U", "s", "e", "r", " ", "d", "e", "n", "i", "e", "d", " ", "a", "l", "l", " ">> \o toolName \o
  <<" ", "r", "e", "q", "u", "e", "s", "t", "s">>

\* AllowResult without its updatedInput: the allow carries an empty input.
AllowResultEmpty(p) == [behavior |-> "allow", updatedInput |-> NoParams, message |-> NoMessage]

\* PermissionResult: { behavior: 'allow', updatedInput } or { behavior: 'deny', message }.
AllowResult(p) == [behavior |-> "allow", updatedInput |-> p, message |-> NoMessage]

DenyResult(m) == [behavior |-> "deny", updatedInput |-> NoParams, message |-> m]

NoResult == [behavior |-> "none", updatedInput |-> NoParams, message |-> NoMessage]

IdleCall ==
  [pc |-> "idle", name |-> NoTool, parameters |-> NoParams, risk |-> "NONE",
   infos |-> 0, prompts |-> 0, classifies |-> 0, resolves |-> 0]

HungCall(k) == [k EXCEPT !.pc = "hung"]

\* No analyzeToolRequest call is being looked at on its own.
NoInfo ==
  [pc |-> "off", toolName |-> NoTool, parameters |-> NoParams, isExistingFile |-> FALSE,
   threw |-> FALSE, riskLevel |-> "NONE", impacts |-> <<>>, preview |-> NoPreview]

\* The gateway as its constructor leaves it.
Fresh ==
  /\ autoAllow = FALSE
  /\ allowedTools = {}
  /\ deniedTools = {}
  /\ call = [c \in Slots |-> IdleCall]
  /\ last = [op |-> "new", slot |-> 0, name |-> NoTool, parameters |-> NoParams,
             answer |-> <<>>, response |-> <<>>, pre |-> getState,
             outcome |-> "none", result |-> NoResult, infos |-> 0, prompts |-> 0,
             classifies |-> 0, resolves |-> 0]

\* main of claude-file-creator has not been entered: conversationDone is
\* undefined, no promise, no generator, no message.
StreamStart ==
  [main |-> "start", conversationDone |-> "undefined", complete |-> FALSE,
   generator |-> "none", yields |-> 0, messages |-> <<>>, caught |-> FALSE]

\* No getUserPermission call of demo-all-features waits at its prompt.
NoDemoCall == [pc |-> "idle", name |-> NoTool, parameters |-> NoParams]

\* demo-all-features as it starts: global.autoAllow is undefined.
DemoStart ==
  [autoAllow |-> FALSE, call |-> [c \in Slots |-> NoDemoCall],
   op |-> "new", name |-> NoTool, parameters |-> NoParams, answer |-> <<>>,
   result |-> NoResult, before |-> FALSE, everA |-> FALSE]

Init == Fresh /\ info = NoInfo /\ stream = StreamStart /\ demo = DemoStart

\* ------------------------------------------------------------ the gateway

\* FastPath without its second check: a denied tool falls through to the prompt.
FastPathNoDeny(toolName) ==
  IF autoAllow \/ toolName \in allowedTools THEN "allow" ELSE "none"

\* FastPath with its two checks in the other order.
FastPathDenyFirst(toolName) ==
  IF toolName \in deniedTools THEN "deny"
  ELSE IF autoAllow \/ toolName \in allowedTools THEN "allow"
  ELSE "none"

\* The two checks getUserPermission makes before anything else.
FastPath(toolName) ==
  IF autoAllow \/ toolName \in allowedTools THEN "allow"
  ELSE IF toolName \in deniedTools THEN "deny"
  ELSE "none"

\* Enter with the deniedTools check left out.
EnterSkipsDenied(toolName, p) ==
  IF FastPath(toolName) = "allow" THEN [kind |-> "resolved", result |-> AllowResult(p)]
  ELSE IF analyzeThrows(toolName, p) THEN [kind |-> "threw", result |-> NoResult]
  ELSE [kind |-> "pending", result |-> NoResult]

\* getUserPermission from its first line to the point where it returns,
\* throws, or blocks in rl.question.
Enter(toolName, p) ==
  IF FastPath(toolName) = "allow" THEN [kind |-> "resolved", result |-> AllowResult(p)]
  ELSE IF FastPath(toolName) = "deny" THEN [kind |-> "resolved", result |-> DenyResult(PreviouslyDenied)]
  ELSE IF analyzeThrows(toolName, p) THEN [kind |-> "threw", result |-> NoResult]
  ELSE [kind |-> "pending", result |-> NoResult]

\* Normalize without its trim().
NormalizeNoTrim(answer) == ToLowerCase(answer)

\* const response = answer.toLowerCase().trim()
Normalize(answer) == Trim(ToLowerCase(answer))

\* SwitchArm taking every answer that starts with y for a yes.
SwitchArmPrefix(response) ==
  CASE response = <<"a">> -> "a"
    [] response = <<"d">> -> "d"
    [] response = <<"i">> -> "i"
    [] Len(response) > 0 /\ response[1] = "y" -> "y"
    [] OTHER -> "default"

\* SwitchArm without its case 'i'.
SwitchArmNoInfo(response) ==
  CASE response = <<"a">> -> "a"
    [] response = <<"d">> -> "d"
    [] response \in {<<"y">>, <<"y", "e", "s">>} -> "y"
    [] OTHER -> "default"

\* The arm of switch (response) that runs.
SwitchArm(response) ==
  CASE response = <<"a">> -> "a"
    [] response = <<"d">> -> "d"
    [] response = <<"i">> -> "i"
    [] response \in {<<"y">>, <<"y", "e", "s">>} -> "y"
    [] OTHER -> "default"

\* ArmAutoAllow with the assignment of case 'a' left out.
ArmAutoAllowUnset(arm) == autoAllow

\* ArmDeniedTools with the add of case 'd' left out.
ArmDeniedToolsUnset(arm, toolName) == deniedTools

\* ArmDeniedTools with case 'd' assigning a new set instead of adding to the old one.
ArmDeniedToolsReplace(arm, toolName) == IF arm = "d" THEN {toolName} ELSE deniedTools

\* The fields each arm assigns.
ArmAutoAllow(arm) == IF arm = "a" THEN TRUE ELSE autoAllow

\* ArmAllowedTools with case 'd' adding the tool as case 'y' does.
ArmAllowedToolsAlsoOnDeny(arm, toolName) ==
  IF arm \in {"y", "d"} THEN allowedTools \cup {toolName} ELSE allowedTools

ArmAllowedTools(arm, toolName) ==
  IF arm = "y" THEN allowedTools \cup {toolName} ELSE allowedTools

ArmDeniedTools(arm, toolName) ==
  IF arm = "d" THEN deniedTools \cup {toolName} ELSE deniedTools

\* ArmResolves with case 'i' lacking its return: control falls into case 'y',
\* which calls resolve.
ArmResolvesFallThrough(arm) == 1

\* How many times the arm itself calls resolve: case 'i' hands resolve to
\* the promise of the call it makes and returns.
ArmResolves(arm) == IF arm = "i" THEN 0 ELSE 1

\* ArmResult with the y arm looking the tool up in deniedTools first.
ArmResultChecksDenied(arm, toolName, p) ==
  CASE arm = "a" -> AllowResult(p)
    [] arm = "d" -> DenyResult(DeniedAll(toolName))
    [] arm = "y" -> IF toolName \in deniedTools THEN DenyResult(PreviouslyDenied)
                    ELSE AllowResult(p)
    [] OTHER -> DenyResult(DeniedOnce)

\* What each arm other than "i" passes to resolve.
ArmResult(arm, toolName, p) ==
  CASE arm = "a" -> AllowResult(p)
    [] arm = "d" -> DenyResult(DeniedAll(toolName))
    [] arm = "y" -> AllowResult(p)
    [] OTHER -> DenyResult(DeniedOnce)

\* Classifications with analyzeToolRequest called before the fast path.
ClassificationsAlways(kind) == 1

\* How often one pass through getUserPermission calls analyzeToolRequest
\* and rl.question, given how the pass ends: the fast path returns before
\* both, a throw of analyzeToolRequest comes before rl.question.
Classifications(kind) == IF kind = "resolved" THEN 0 ELSE 1

Prompts(kind) == IF kind = "pending" THEN 1 ELSE 0

\* A call to getUserPermission(r.name, r.parameters) in slot c, run to its
\* return, its throw, or its rl.question.
GetUserPermission(c, r, isExistingFile) ==
  /\ call[c].pc = "idle"
  /\ LET e == Enter(r.name, r.parameters)
         asked == Classifications(e.kind)
         prompted == Prompts(e.kind)
     IN /\ call' = [call EXCEPT ![c] =
                      IF e.kind = "pending"
                      THEN [pc |-> "await", name |-> r.name, parameters |-> r.parameters,
                            risk |-> analyzeToolRequest(r.name, r.parameters, isExistingFile),
                            infos |-> 0, prompts |-> 1, classifies |-> 1, resolves |-> 0]
                      ELSE IdleCall]
        /\ last' = [op |-> "call", slot |-> c, name |-> r.name, parameters |-> r.parameters,
                    answer |-> <<>>, response |-> <<>>, pre |-> getState,
                    outcome |-> e.kind, result |-> e.result,
                    infos |-> 0, prompts |-> prompted, classifies |-> asked,
                    resolves |-> IF e.kind = "resolved" THEN 1 ELSE 0]
  /\ UNCHANGED <<autoAllow, allowedTools, deniedTools, info, stream, demo>>

\* The rl.question callback of the call in slot c, given the line typed.
\* On "i" the callback calls getUserPermission again and hands its own
\* resolve to the promise that call returns.
Answer(c, answer, isExistingFile) ==
  /\ call[c].pc = "await"
  /\ LET k == call[c]
         response == Normalize(answer)
         arm == SwitchArm(response)
         e == Enter(k.name, k.parameters)
         again == arm = "i" /\ e.kind = "pending"
         asked == IF arm = "i" THEN Classifications(e.kind) ELSE 0
         resolved == k.resolves + ArmResolves(arm)
                       + (IF arm = "i" /\ e.kind = "resolved" THEN 1 ELSE 0)
     IN /\ arm = "i" => k.infos < MaxInfo
        /\ autoAllow' = ArmAutoAllow(arm)
        /\ allowedTools' = ArmAllowedTools(arm, k.name)
        /\ deniedTools' = ArmDeniedTools(arm, k.name)
        /\ call' = [call EXCEPT ![c] =
                      IF again
                      THEN [k EXCEPT !.infos = @ + 1, !.prompts = @ + 1, !.classifies = @ + 1,
                                     !.resolves = resolved,
                                     !.risk = analyzeToolRequest(k.name, k.parameters, isExistingFile)]
                      ELSE IF arm = "i" /\ e.kind = "threw" THEN HungCall(k)
                      ELSE IdleCall]
        /\ last' = [op |-> "answer", slot |-> c, name |-> k.name, parameters |-> k.parameters,
                    answer |-> answer, response |-> response, pre |-> getState,
                    outcome |-> IF arm = "i" THEN (IF e.kind = "threw" THEN "hung" ELSE e.kind)
                                ELSE "resolved",
                    result |-> IF arm = "i" THEN e.result ELSE ArmResult(arm, k.name, k.parameters),
                    infos |-> k.infos + (IF arm = "i" THEN 1 ELSE 0),
                    prompts |-> k.prompts + (IF arm = "i" THEN Prompts(e.kind) ELSE 0),
                    classifies |-> k.classifies + asked,
                    resolves |-> resolved]
  /\ UNCHANGED <<info, stream, demo>>

\* What fs.existsSync may answer: only the Write arm calls it.
ExistsOutcomes(toolName) == IF toolName = Write THEN BOOLEAN ELSE {FALSE}

\* The requests a caller that does not wait is modelled with.
OverlapRequests ==
  {r \in Requests : r.name \in {Write, Read} /\ Has(r.parameters, "file_path")
                     /\ ~isSystemPath(r.parameters) /\ ~isSensitive(r.parameters)}

Awaiting == {c \in Slots : call[c].pc = "await"}

Idle == {c \in Slots : call[c].pc = "idle"}

FirstIdle == CHOOSE c \in Idle : \A d \in Idle : c <= d

\* The runtime asks for the next decision only after the previous one came.
Evaluate ==
  /\ Awaiting = {}
  /\ Idle # {}
  /\ \E r \in Requests : \E isExistingFile \in ExistsOutcomes(r.name) :
       GetUserPermission(FirstIdle, r, isExistingFile)

\* A caller that does not wait: a call while others still await their line.
\* The Write target is a file that does not exist yet.
EvaluateOverlapping ==
  /\ Idle # {}
  /\ \E r \in OverlapRequests : GetUserPermission(FirstIdle, r, FALSE)

Respond ==
  \E c \in Awaiting, answer \in Answers :
    \E isExistingFile \in ExistsOutcomes(call[c].name) :
      Answer(c, answer, isExistingFile)

\* The lines typed at the prompts of overlapping calls: one per switch arm.
OverlapAnswers == {<<"y">>, <<"a">>, <<"d">>, <<"i">>, <<"n">>}

RespondOverlapping ==
  \E c \in Awaiting, answer \in OverlapAnswers : Answer(c, answer, FALSE)

Next == Evaluate \/ Respond

Spec == Init /\ [][Next]_vars

NextConc == EvaluateOverlapping \/ RespondOverlapping

SpecConc == Init /\ [][NextConc]_vars

\* reset(): the three fields are set back; calls waiting at their prompt
\* are not touched.
Reset ==
  /\ autoAllow' = FALSE
  /\ allowedTools' = {}
  /\ deniedTools' = {}
  /\ last' = [op |-> "reset", slot |-> 0, name |-> NoTool, parameters |-> NoParams,
              answer |-> <<>>, response |-> <<>>, pre |-> getState,
              outcome |-> "none", result |-> NoResult, infos |-> 0, prompts |-> 0,
              classifies |-> 0, resolves |-> 0]
  /\ UNCHANGED <<call, info, stream, demo>>

\* The host may call reset() between any two steps of the gateway.
NextReset == Evaluate \/ Respond \/ Reset

SpecReset == Init /\ [][NextReset]_vars

\* --------------------------------------------- the classifier on its own

WritePaths ==
  {TmpPath, EtcPath, UsrPath, SysPath, NestedEtcPath, RelativeEtcPath, EtcLikePath, NotesPath}

ReadPaths ==
  {NotesPath, EnvPath, UpperSecretPath, LowerSecretPath, KeyPath, TokenPath, TmpPath, EtcPath}

Commands ==
  {LsCmd, RmCmd, CurlCmd, AptCmd, NpmInstallCmd, NpmRunCmd, SudoCurlCmd, AllFamiliesCmd,
   UpperRmCmd, EchoCmd, InformCmd}

Urls == {GoodUrl, BadUrl, HttpsNoHostUrl}

Contents ==
  {Hello, EmptyContent, TwoLines, TrailingNewline, FiveLines, SixLines, EightLines, LongLine,
   LongLineAndMore}

\* Parameter objects for the tools whose arm reads no field it depends on:
\* empty, well-formed, and carrying another tool's fields.
OtherParams ==
  {NoParams,
   With(With(With(NoParams, "file_path", TmpPath), "old_string", OldText), "new_string", Hello),
   With(With(NoParams, "path", SrcDir), "pattern", OldText),
   With(NoParams, "command", RmCmd),
   With(NoParams, "file_path", EtcPath),
   With(With(NoParams, "file_path", TmpPath), "content", SixLines)}

ClassifiedParams(toolName) ==
  CASE toolName = Write ->
         {NoParams, With(NoParams, "content", Hello)}
           \cup {With(NoParams, "file_path", f) : f \in WritePaths}
           \cup {With(With(NoParams, "file_path", f), "content", Hello) : f \in WritePaths}
           \cup {With(With(NoParams, "file_path", TmpPath), "content", c) : c \in Contents}
    [] toolName = Read -> {NoParams} \cup {With(NoParams, "file_path", f) : f \in ReadPaths}
    [] toolName = Bash -> {NoParams} \cup {With(NoParams, "command", cmd) : cmd \in Commands}
    [] toolName = WebFetch -> {NoParams} \cup {With(NoParams, "url", u) : u \in Urls}
    [] OTHER -> OtherParams

ClassifiedTools ==
  {Write, Edit, MultiEdit, Bash, Read, LS, Grep, WebFetch, TodoWrite, McpTool, ScopedTool,
   UpperMcpTool, LowerWriteTool, OtherTool}

\* analyzeToolRequest is about to be called with these arguments, and
\* fs.existsSync will answer isExistingFile.
ReadyInfo(toolName, p, isExistingFile) ==
  [pc |-> "ready", toolName |-> toolName, parameters |-> p, isExistingFile |-> isExistingFile,
   threw |-> FALSE, riskLevel |-> "NONE", impacts |-> <<>>, preview |-> NoPreview]

InitClassify ==
  /\ Fresh
  /\ stream = StreamStart
  /\ demo = DemoStart
  /\ \E toolName \in ClassifiedTools :
       \E p \in ClassifiedParams(toolName), isExistingFile \in ExistsOutcomes(toolName) :
         info = ReadyInfo(toolName, p, isExistingFile)

\* One call of analyzeToolRequest, to its return or its TypeError.
Classify ==
  /\ info.pc = "ready"
  /\ info' =
       IF analyzeThrows(info.toolName, info.parameters)
       THEN [info EXCEPT !.pc = "done", !.threw = TRUE]
       ELSE [info EXCEPT
               !.pc = "done",
               !.riskLevel = analyzeToolRequest(info.toolName, info.parameters, info.isExistingFile),
               !.impacts = impactsOf(info.toolName, info.parameters, info.isExistingFile)]
  /\ UNCHANGED <<autoAllow, allowedTools, deniedTools, call, last, stream, demo>>

\* The profile is printed, and the content preview if the tool is one that
\* writes files.
Display ==
  /\ info.pc = "done"
  /\ ~info.threw
  /\ info' = [info EXCEPT !.pc = "shown",
                          !.preview = PreviewFor(info.toolName, info.parameters)]
  /\ UNCHANGED <<autoAllow, allowedTools, deniedTools, call, last, stream, demo>>

NextClassify == Classify \/ Display

SpecClassify == InitClassify /\ [][NextClassify]_vars

\* --------------------------------------------- claude-file-creator's main

MessageTypes == {"assistant", "user", "result", "system"}

\* The loop body without the call at its result branch.
DoneOnMessageNever(type) == FALSE

\* Whether the loop body calls conversationDone for a message of this type.
DoneOnMessage(type) == type = "result"

\* main up to the for await: the promise whose resolve is kept in
\* conversationDone, the generator object, the call of query.
StartMain ==
  /\ stream.main = "start"
  /\ stream' = [stream EXCEPT !.main = "loop", !.conversationDone = "resolve",
                              !.generator = "created"]

\* The query takes the next item of the prompt stream: the first time the
\* generator runs to its yield, the second time on to the await.
PullPrompt ==
  /\ stream.main \in {"loop", "finished"}
  /\ stream.generator \in {"created", "yielded"}
  /\ stream' = IF stream.generator = "created"
               THEN [stream EXCEPT !.generator = "yielded", !.yields = @ + 1]
               ELSE [stream EXCEPT !.generator = "awaiting"]

\* conversationComplete is resolved and the generator runs to its end.
ResumeGenerator ==
  /\ stream.main \in {"loop", "finished"}
  /\ stream.generator = "awaiting"
  /\ stream.complete
  /\ stream' = [stream EXCEPT !.generator = "closed"]

\* One turn of the for await loop.
ReceiveMessage(type) ==
  /\ stream.main = "loop"
  /\ Len(stream.messages) < MaxMessages
  /\ stream' = [stream EXCEPT
                  !.messages = Append(@, type),
                  !.complete = @ \/ (DoneOnMessage(type) /\ stream.conversationDone # "undefined")]

\* The query, or the loop body, throws: the catch block runs and the process exits.
CatchError ==
  /\ stream.main = "loop"
  /\ stream' = [stream EXCEPT !.main = "exited", !.caught = TRUE,
                              !.complete = @ \/ stream.conversationDone # "undefined"]

\* The query's iterator ends: main prints its summary and returns.
FinishMain ==
  /\ stream.main = "loop"
  /\ stream' = [stream EXCEPT !.main = "finished"]

\* SIGINT: abortController.abort() and process.exit(0).
Interrupt ==
  /\ stream.main = "loop"
  /\ stream' = [stream EXCEPT !.main = "exited"]

NextStream ==
  /\ \/ StartMain
     \/ PullPrompt
     \/ ResumeGenerator
     \/ \E type \in MessageTypes : ReceiveMessage(type)
     \/ CatchError
     \/ FinishMain
     \/ Interrupt
  /\ UNCHANGED <<autoAllow, allowedTools, deniedTools, call, last, info, demo>>

SpecStream == Init /\ [][NextStream]_vars

\* ------------------------------------- demo-all-features' getUserPermission

\* String.prototype.startsWith.
StartsWithText(s, prefix) ==
  Len(s) >= Len(prefix) /\ SubSeq(s, 1, Len(prefix)) = prefix

DemoRequests ==
  { [name |-> Write, parameters |-> With(With(NoParams, "file_path", TmpPath), "content", Hello)],
    [name |-> Bash, parameters |-> With(NoParams, "command", LsCmd)],
    [name |-> LS, parameters |-> NoParams] }

\* Lines typed at the demo's prompt.
DemoAnswers ==
  { <<"y">>, <<"Y">>, <<"y", "e", "s">>, <<"y", "o">>, <<" ", "y">>, <<"a">>, <<"A">>,
    <<"a", " ">>, <<"a", "y">>, <<"n">>, <<>> }

\* if (response === 'a') global.autoAllow = true
DemoSetsFlag(response) == response = <<"a">>

\* DemoAllows without the test of the global flag.
DemoAllowsNoFlag(response, flag) ==
  StartsWithText(response, <<"y">>) \/ response = <<"a">>

\* response.startsWith('y') || response === 'a' || global.autoAllow
DemoAllows(response, flag) ==
  StartsWithText(response, <<"y">>) \/ response = <<"a">> \/ flag

DemoIdle == {c \in Slots : demo.call[c].pc = "idle"}

DemoAwaiting == {c \in Slots : demo.call[c].pc = "await"}

\* canUseTool calls getUserPermission, which prints the request and asks.
DemoCall(c, r) ==
  /\ demo.call[c].pc = "idle"
  /\ demo' = [demo EXCEPT
                !.call[c] = [pc |-> "await", name |-> r.name, parameters |-> r.parameters],
                !.op = "call", !.name = r.name, !.parameters = r.parameters,
                !.answer = <<>>, !.result = NoResult, !.before = demo.autoAllow]

\* The rl.question callback of the call in slot c.
DemoAnswer(c, answer) ==
  /\ demo.call[c].pc = "await"
  /\ LET k == demo.call[c]
         response == ToLowerCase(answer)
         flag == demo.autoAllow \/ DemoSetsFlag(response)
     IN demo' = [demo EXCEPT
                   !.autoAllow = flag,
                   !.call[c] = NoDemoCall,
                   !.op = "answer", !.name = k.name, !.parameters = k.parameters,
                   !.answer = answer,
                   !.result = IF DemoAllows(response, flag) THEN AllowResult(k.parameters)
                              ELSE DenyResult(DeniedOnce),
                   !.before = demo.autoAllow,
                   !.everA = @ \/ answer \in {<<"a">>, <<"A">>}]

NextDemo ==
  /\ \/ \E c \in DemoIdle, r \in DemoRequests : DemoCall(c, r)
     \/ \E c \in DemoAwaiting, answer \in DemoAnswers : DemoAnswer(c, answer)
  /\ UNCHANGED <<autoAllow, allowedTools, deniedTools, call, last, info, stream>>

SpecDemo == Init /\ [][NextDemo]_vars

\* ------------------------------------------------------------------ claims

Yes == {<<"y">>, <<"y", "e", "s">>}

Answered == last.op = "answer"

Called == last.op = "call"

Allowed == last.outcome = "resolved" /\ last.result.behavior = "allow"

Denied == last.outcome = "resolved" /\ last.result.behavior = "deny"

StateUnchanged == getState = last.pre

\* No prompt was issued and no classification made during the evaluation.
Silent == last.prompts = 0 /\ last.classifies = 0

C2_AllowOnce ==
  Answered /\ last.response \in Yes =>
    /\ Allowed
    /\ StateUnchanged
    /\ FastPath(last.name) = "none"

C4_ForeverRemovesOpposite ==
  /\ Answered /\ last.response = <<"d">> /\ last.name \in last.pre.allowedTools
       => last.name \in deniedTools /\ last.name \notin allowedTools
  /\ Answered /\ last.response \in Yes /\ last.name \in last.pre.deniedTools
       => last.name \in allowedTools /\ last.name \notin deniedTools

\* C5: a request made while autoAllow is set is allowed without classifying
\* or prompting, whatever the tool; next a tool in allowedTools is
\* allowed, and only then a tool in deniedTools is denied.
C5_FastPathPriority ==
  Called =>
    /\ last.pre.autoAllow => Allowed /\ Silent
    /\ last.name \in last.pre.allowedTools => Allowed /\ Silent
    /\ (/\ ~last.pre.autoAllow
        /\ last.name \notin last.pre.allowedTools
        /\ last.name \in last.pre.deniedTools) => Denied /\ Silent

\* A request for a denied tool was allowed because autoAllow was set.
C5_Witness ==
  /\ Called
  /\ last.pre.autoAllow
  /\ last.name \in last.pre.deniedTools
  /\ last.name \notin last.pre.allowedTools
  /\ Allowed

C7_AllowAll ==
  /\ Answered /\ last.response = <<"a">> =>
       /\ Allowed
       /\ autoAllow
       /\ allowedTools = last.pre.allowedTools
       /\ deniedTools = last.pre.deniedTools
  /\ last.pre.autoAllow => autoAllow
  /\ Called /\ last.pre.autoAllow => Allowed /\ last.prompts = 0 /\ call[last.slot].pc = "idle"

\* A request was allowed on the strength of autoAllow alone.
C7_Witness ==
  /\ Called
  /\ last.pre.autoAllow
  /\ allowedTools = {}
  /\ deniedTools = {}
  /\ Allowed

DecisionFor(response, p) ==
  IF response \in Yes \cup {<<"a">>} THEN AllowResult(p).behavior ELSE "deny"

C10_NeverThrows == last.outcome \notin {"threw", "hung"}

C12_AllowCarriesParameters ==
  /\ Allowed =>
       /\ last.result.updatedInput = last.parameters
       /\ \A key \in Keys : last.result.updatedInput[key] = last.parameters[key]
  /\ \A c \in Awaiting : Called /\ last.slot = c => call[c].parameters = last.parameters

\* A request that carries content was allowed by yes after an i answer.
C12_Witness ==
  /\ Answered
  /\ Allowed
  /\ last.response = <<"y", "e", "s">>
  /\ last.infos >= 1
  /\ Has(last.parameters, "content")

\* The reasons of a denial that holds for one request, and of one that holds
\* for every later request for the tool.
OneTimeReasons == {DeniedOnce}

PermanentReasons == {PreviouslyDenied} \cup {DeniedAll(t) : t \in ToolNames}

\* C13: every Deny carries a reason that tells its kind: the reason of a
\* one-time denial (n, empty or unrecognised input) differs from the reason
\* of a permanent denial of the tool (the answer d, and the later fast-path
\* denials of that tool), so the reason alone tells the two apart.
C13_DenyReasonKinds ==
  /\ OneTimeReasons \cap PermanentReasons = {}
  /\ Denied =>
       LET permanent == Called \/ last.response \in {<<"d">>, <<"i">>}
       IN /\ last.result.message # <<>>
          /\ permanent => last.result.message \in PermanentReasons \ OneTimeReasons
          /\ ~permanent => last.result.message \in OneTimeReasons \ PermanentReasons

\* A request was denied once while another tool was denied for good.
C13_Witness ==
  /\ Answered
  /\ Denied
  /\ last.response = <<"n">>
  /\ last.pre.deniedTools # {}
  /\ last.name \notin deniedTools

\* A call of analyzeToolRequest returned a DetailedToolInfo.
Classified == info.pc \in {"done", "shown"} /\ ~info.threw

StartsWith(s, prefix) ==
  Len(s) >= Len(prefix) /\ SubSeq(s, 1, Len(prefix)) = prefix

\* C14: a Write is CRITICAL when its target path falls under one of the
\* system-directory prefixes /etc/, /usr/, /sys/, whether or not the file
\* exists; otherwise MEDIUM when the file exists and LOW when it does not.
\* A path that is not under a system directory is never CRITICAL.
C14_WriteRisk ==
  Classified /\ info.toolName = Write =>
    LET filePath == Get(info.parameters, "file_path")
        underSystemDir == \E dir \in SystemDirs : StartsWith(filePath, dir)
    IN info.riskLevel =
         IF underSystemDir THEN "CRITICAL"
         ELSE IF info.isExistingFile THEN "MEDIUM" ELSE "LOW"

FamilyLines == {"DANGEROUS", "NETWORK", "INSTALL"}

Count(b) == IF b THEN 1 ELSE 0

\* C15: a Bash command gets the highest risk among the families it matches:
\* CRITICAL whenever the destructive family matches, whatever else matches,
\* HIGH when the networking or the install family matches and the
\* destructive one does not, MEDIUM when none matches; and each matched
\* family adds its own impact line, so there are as many family lines as
\* matched families.
C15_BashRisk ==
  Classified /\ info.toolName = Bash =>
    LET command == TextOf(info.parameters, "command")
        destructive == IncludesAny(command, DangerousWords)
        networking == IncludesAny(command, NetworkingWords)
        install == IncludesAny(command, InstallWords)
        lines == {i \in DOMAIN info.impacts : info.impacts[i] \in FamilyLines}
    IN /\ info.riskLevel =
            IF destructive THEN "CRITICAL"
            ELSE IF networking \/ install THEN "HIGH" ELSE "MEDIUM"
       /\ Cardinality(lines) = Count(destructive) + Count(networking) + Count(install)
       /\ destructive <=> \E i \in lines : info.impacts[i] = "DANGEROUS"
       /\ networking <=> \E i \in lines : info.impacts[i] = "NETWORK"
       /\ install <=> \E i \in lines : info.impacts[i] = "INSTALL"

\* A command matching all three families was classified: CRITICAL, with
\* three family lines after the three fixed ones.
C15_Witness ==
  /\ Classified
  /\ info.toolName = Bash
  /\ isDangerous(info.parameters) /\ isNetworking(info.parameters) /\ isInstall(info.parameters)
  /\ info.riskLevel = "CRITICAL"
  /\ Len(info.impacts) = 6

\* The same text in lower-case letters, letter by letter.
Folded(s) == [i \in 1..Len(s) |-> IF \E j \in 1..Len(Upper) : Upper[j] = s[i]
                                    THEN Lower[CHOOSE j \in 1..Len(Upper) : Upper[j] = s[i]]
                                    ELSE s[i]]

\* Whether word stands somewhere in s, letter case aside.
ContainsFolded(s, word) ==
  \E i \in 1..(Len(s) - Len(word) + 1) :
    \A j \in 1..Len(word) : Folded(s)[i + j - 1] = word[j]

\* C16: a Read is HIGH exactly when its path contains one of password,
\* secret, key, token, config, env as a substring, letter case aside (so
\* SECRET.ENV and secret.env get the same class), and LOW otherwise.
C16_ReadRisk ==
  Classified /\ info.toolName = Read =>
    LET readPath == Get(info.parameters, "file_path")
        sensitive == \E word \in SensitiveWords : ContainsFolded(readPath, word)
    IN /\ info.riskLevel = IF sensitive THEN "HIGH" ELSE "LOW"
       /\ info.riskLevel =
            analyzeToolRequest(Read, With(NoParams, "file_path", Folded(readPath)), FALSE)

\* A path naming a keyword in capital letters was classified HIGH.
C16_Witness ==
  /\ Classified
  /\ info.toolName = Read
  /\ Get(info.parameters, "file_path") = UpperSecretPath
  /\ info.riskLevel = "HIGH"

\* The request missed the fast path as the fields stood before the step.
MissedFastPath ==
  /\ ~last.pre.autoAllow
  /\ last.name \notin last.pre.allowedTools \cup last.pre.deniedTools

\* C17: every evaluation produces exactly one decision: resolve is called
\* at most once for the promise of an evaluation; an input line that is not
\* i, after any number of i answers, resolves it exactly once, with Allow or
\* Deny; and on a fast-path miss nothing is resolved before such a line.
C17_ResolvedOnce ==
  /\ last.resolves <= 1
  /\ \A c \in Slots : call[c].resolves = 0
  /\ Answered /\ last.response # <<"i">> =>
       /\ last.resolves = 1
       /\ Allowed \/ Denied
       /\ call[last.slot].pc = "idle"
  /\ Called /\ MissedFastPath =>
       /\ last.resolves = 0
       /\ last.outcome # "resolved"
       /\ last.result = NoResult
  /\ Answered /\ last.response = <<"i">> /\ MissedFastPath =>
       /\ last.resolves = 0
       /\ last.outcome # "resolved"
       /\ last.result = NoResult
  /\ last.outcome = "resolved" <=> last.resolves = 1

\* An evaluation was resolved, once, by n after two i answers.
C17_Witness ==
  /\ Answered
  /\ last.infos = 2
  /\ last.response = <<"n">>
  /\ Denied
  /\ last.resolves = 1

EmptyState == [autoAllow |-> FALSE, allowedTools |-> {}, deniedTools |-> {}]

\* The fields change only by a decision reached at a prompt: a fast-path
\* hit, a classification, a content preview and an i answer leave them as
\* they were.
StateFrame ==
  /\ Called => StateUnchanged
  /\ Answered /\ last.response = <<"i">> => StateUnchanged
  /\ ~StateUnchanged =>
       /\ Answered
       /\ last.outcome = "resolved"
       /\ last.response \in Yes \cup {<<"a">>, <<"d">>}

\* C18: the three fields are empty when the gateway is constructed, so the
\* first request for any tool always prompts; and they change only by a
\* decision reached at a prompt: a fast-path hit, a classification, a
\* content preview and an i answer each leave autoAllow, allowedTools and
\* deniedTools as they were.
C18_StateLifecycle ==
  /\ last.op = "new" => getState = EmptyState
  /\ Called /\ last.pre = EmptyState =>
       /\ last.outcome = "pending"
       /\ last.prompts = 1
  /\ StateFrame

\* How many whitespace characters s starts with, and ends with.
Leading(s) == Cardinality({i \in 1..Len(s) : \A j \in 1..i : s[j] \in Whitespace})

Trailing(s) == Cardinality({i \in 1..Len(s) : \A j \in i..Len(s) : s[j] \in Whitespace})

\* The lower-cased, whitespace-trimmed form of an input line.
Canonical(s) ==
  IF Leading(s) = Len(s) THEN <<>>
  ELSE SubSeq(Folded(s), Leading(s) + 1, Len(s) - Trailing(s))

\* C19: the decision and the state change an input line produces are those
\* its lower-cased, whitespace-trimmed form produces (Y, ' y ', YES, A,
\* ' D ', I behave as y, y, yes, a, d, i), and normalizing twice is the same
\* as normalizing once.
C19_Normalization ==
  /\ \A s \in Answers : Normalize(Normalize(s)) = Normalize(s)
  /\ Normalize(<<"Y">>) = <<"y">> /\ Normalize(<<" ", "y", " ">>) = <<"y">>
  /\ Normalize(<<"Y", "E", "S">>) = <<"y", "e", "s">> /\ Normalize(<<"A">>) = <<"a">>
  /\ Normalize(<<" ", "D", " ">>) = <<"d">> /\ Normalize(<<"I">>) = <<"i">>
  /\ Answered =>
       LET s == Canonical(last.answer)
       IN /\ last.response = s
          /\ s = <<"i">> => StateUnchanged /\ (MissedFastPath => last.outcome # "resolved")
          /\ s # <<"i">> =>
               /\ last.outcome = "resolved"
               /\ last.result.behavior = DecisionFor(s, last.parameters)
               /\ autoAllow = (last.pre.autoAllow \/ s = <<"a">>)
               /\ allowedTools = last.pre.allowedTools \cup (IF s \in Yes THEN {last.name} ELSE {})
               /\ deniedTools = last.pre.deniedTools \cup (IF s = <<"d">> THEN {last.name} ELSE {})

\* The line ' D ' denied a tool for good.
C19_Witness ==
  /\ Answered
  /\ last.answer = <<" ", "D", " ">>
  /\ last.name \in deniedTools
  /\ Denied

\* C20: the fixed-risk categories hold for every parameter map, empty and
\* malformed ones included: Edit and MultiEdit are always MEDIUM, WebFetch is
\* always MEDIUM, LS, Grep and TodoWrite are always LOW.
C20_FixedRisk ==
  info.pc = "done" =>
    /\ info.toolName \in {Edit, MultiEdit, WebFetch} =>
         ~info.threw /\ info.riskLevel = "MEDIUM"
    /\ info.toolName \in {LS, Grep, TodoWrite} =>
         ~info.threw /\ info.riskLevel = "LOW"

KnownTools == {Write, Edit, MultiEdit, Bash, Read, LS, Grep, WebFetch, TodoWrite}

\* The first impact line of the two profiles the default arm returns.
DefaultArmLines == {"MCP Server", "Tool"}

\* Whether the name contains mcp_ or @.
ExternallySourced(toolName) ==
  \/ \E i \in 1..Len(toolName) : toolName[i] = "@"
  \/ \E i \in 1..(Len(toolName) - 3) :
       /\ toolName[i] = "m" /\ toolName[i + 1] = "c"
       /\ toolName[i + 2] = "p" /\ toolName[i + 3] = "_"

\* C21: a tool name outside the known set is HIGH when it contains mcp_ or
\* @ and MEDIUM otherwise, never LOW; a known tool name is never given the
\* profile of the default arm.
C21_DefaultArm ==
  /\ \A t \in KnownTools : ~ExternallySourced(t)
  /\ Classified =>
       /\ info.toolName \notin KnownTools =>
            /\ info.riskLevel = IF ExternallySourced(info.toolName) THEN "HIGH" ELSE "MEDIUM"
            /\ info.riskLevel # "LOW"
            /\ info.impacts[1] \in DefaultArmLines
       /\ info.toolName \in KnownTools => info.impacts[1] \notin DefaultArmLines

\* A name with an @ in it took the default arm and was classified HIGH.
C21_Witness ==
  /\ Classified
  /\ info.toolName = ScopedTool
  /\ info.riskLevel = "HIGH"
  /\ info.impacts[1] = "MCP Server"

\* The profile was printed, with the preview where one is due.
Displayed == info.pc = "shown"

\* Where the i-th line of a text begins, after i - 1 newlines, and how many
\* characters it has before the next newline.
LineStart(s, i) ==
  1 + Cardinality({j \in 1..Len(s) : Cardinality({m \in 1..(j - 1) : s[m] = "\n"}) < i - 1})

LineLength(s, i) ==
  Cardinality({j \in LineStart(s, i)..Len(s) : \A m \in LineStart(s, i)..j : s[m] # "\n"})

ResultArrived == \E i \in 1..Len(stream.messages) : stream.messages[i] = "result"

\* C23: the prompt generator of claude-file-creator yields the single user
\* message and then stays open, suspended on conversationComplete, until
\* conversationDone is called; conversationDone is called when a result
\* message is received and when an error is caught; so the stream is never
\* closed before the result arrived or an error was caught, and it is
\* released on every path where a result arrives or the query throws.
C23_StreamKeptOpen ==
  /\ stream.yields <= 1
  /\ stream.generator \in {"yielded", "awaiting", "closed"} => stream.yields = 1
  /\ stream.generator = "closed" => stream.complete
  /\ stream.complete => ResultArrived \/ stream.caught
  /\ ResultArrived => stream.complete
  /\ stream.caught => stream.complete
  /\ stream.generator = "awaiting" /\ stream.complete /\ stream.main # "exited"
       => ENABLED ResumeGenerator

\* The stream was closed after the result came second, with no error.
C23_Witness ==
  /\ stream.generator = "closed"
  /\ Len(stream.messages) >= 2
  /\ stream.messages[2] = "result"
  /\ stream.messages[1] = "assistant"
  /\ ~stream.caught

WasReset == last.op = "reset"

\* reset() leaves the three fields as the constructor does, whatever they
\* were, and getState() reports that; no tool name is then decided from memory.
ResetClears ==
  WasReset =>
    /\ ~autoAllow /\ allowedTools = {} /\ deniedTools = {}
    /\ getState = EmptyState
    /\ \A r \in Requests : FastPath(r.name) = "none"

\* C24: reset() returns the gateway to the initial state from any state:
\* afterwards autoAllow is false and both sets are empty, getState() reports
\* exactly that, and the next request for any tool name misses the fast
\* path and prompts.
C24_Reset ==
  /\ ResetClears
  /\ WasReset =>
       \A r \in Requests :
         Enter(r.name, r.parameters) = [kind |-> "pending", result |-> NoResult]

\* C25: decision memory is monotone between resets: by a step that is not a
\* reset() autoAllow never goes from true to false and no tool name leaves
\* allowedTools or deniedTools; and an evaluation adds at most one tool
\* name, its own, to at most one of the two sets, by the answer that ends it.
C25_MonotoneMemory ==
  ~WasReset =>
    LET allowedNow == allowedTools \ last.pre.allowedTools
        deniedNow == deniedTools \ last.pre.deniedTools
    IN /\ last.pre.autoAllow => autoAllow
       /\ last.pre.allowedTools \subseteq allowedTools
       /\ last.pre.deniedTools \subseteq deniedTools
       /\ allowedNow \cup deniedNow \subseteq {last.name}
       /\ allowedNow = {} \/ deniedNow = {}
       /\ allowedNow \cup deniedNow # {} => Answered /\ last.outcome = "resolved"

\* With a tool in allowedTools, another tool was denied for good: one name
\* went into deniedTools and nothing left allowedTools.
C25_Witness ==
  /\ Answered
  /\ last.response = <<"d">>
  /\ last.pre.allowedTools # {}
  /\ last.pre.deniedTools = {}
  /\ deniedTools = {last.name}
  /\ allowedTools = last.pre.allowedTools

\* C26: with one evaluation outstanding at a time, each i answer re-enters
\* getUserPermission from the top and that re-entry never takes the fast
\* path; an evaluation that got k i answers has issued k + 1 prompts and
\* classified k + 1 times, and a fast-path hit issues no prompt and
\* classifies nothing.
C26_InfoReentry ==
  /\ Answered /\ last.response = <<"i">> =>
       /\ FastPath(last.name) = "none"
       /\ last.outcome = "pending"
       /\ call[last.slot].pc = "await"
  /\ Answered =>
       /\ last.prompts = last.infos + 1
       /\ last.classifies = last.infos + 1
  /\ \A c \in Awaiting :
       /\ call[c].prompts = call[c].infos + 1
       /\ call[c].classifies = call[c].infos + 1
  /\ Called /\ last.outcome = "resolved" =>
       /\ last.prompts = 0
       /\ last.classifies = 0
       /\ last.infos = 0

\* An evaluation ended by d after two i answers: three prompts, three
\* classifications.
C26_Witness ==
  /\ Answered
  /\ last.response = <<"d">>
  /\ last.infos = 2
  /\ last.prompts = 3
  /\ last.classifies = 3

\* The decision an answer gives, read off the answer and the request alone.
OwnDecision ==
  Answered /\ last.response # <<"i">> =>
    /\ last.outcome = "resolved"
    /\ last.resolves = 1
    /\ last.result =
         IF last.response \in Yes \cup {<<"a">>} THEN AllowResult(last.parameters)
         ELSE IF last.response = <<"d">> THEN DenyResult(DeniedAll(last.name))
         ELSE DenyResult(DeniedOnce)

\* A call waiting at its prompt is changed by its own answer only.
OthersUntouched ==
  \A c \in Slots :
    call[c].pc = "await" /\ call'[c] # call[c] => last'.op = "answer" /\ last'.slot = c

InfoReadsMemory ==
  Answered /\ last.response = <<"i">> =>
    IF last.pre.autoAllow \/ last.name \in last.pre.allowedTools
    THEN last.outcome = "resolved" /\ last.result = AllowResult(last.parameters)
    ELSE IF last.name \in last.pre.deniedTools
    THEN last.outcome = "resolved" /\ last.result = DenyResult(PreviouslyDenied)
    ELSE last.outcome # "resolved" /\ last.result = NoResult

C28_DemoAutoAllow ==
  /\ demo.autoAllow = demo.everA
  /\ demo.before => demo.autoAllow
  /\ demo.op = "call" =>
       /\ demo.result = NoResult
       /\ \E c \in Slots :
            demo.call[c] = [pc |-> "await", name |-> demo.name, parameters |-> demo.parameters]
  /\ demo.op = "answer" =>
       LET response == Folded(demo.answer)
           yes == Len(response) >= 1 /\ response[1] = "y"
       IN /\ demo.result.behavior \in {"allow", "deny"}
          /\ demo.result.behavior = "allow" => demo.result.updatedInput = demo.parameters
          /\ ~demo.before => (demo.result.behavior = "allow" <=> yes \/ response = <<"a">>)
          /\ demo.before => demo.result.behavior = "allow"
          /\ demo.autoAllow = (demo.before \/ response = <<"a">>)

\* After an a, a call was answered n and allowed.
C28_Witness ==
  /\ demo.op = "answer"
  /\ demo.answer = <<"n">>
  /\ demo.before
  /\ demo.result.behavior = "allow"

====
